---------------------------- MODULE Spec2Model ----------------------------
(***************************************************************************)
(* A model of the imageproc core: the pixel kinds and their arithmetic,    *)
(* the strided Image buffer with its accessors, mutators and iterators,    *)
(* the boundary sampler Eye, the kernel convolution and the Gaussian, box, *)
(* median and Sobel filters.                                               *)
(*                                                                         *)
(* Subpixels are 8-bit unsigned integers (the u8 images of the tests).     *)
(* A pixel is a sequence of channels() subpixels; channel index i of the   *)
(* code (0-based) is position i+1 of the sequence.  The pixel buffer of an *)
(* image is a sequence; buffer offset off of the code is position off+1.   *)
(***************************************************************************)
EXTENDS Integers, Sequences, FiniteSets, TLC

VARIABLES
    kind,   \* the pixel kind P of Image<P>
    made,   \* the arguments Image::new was called with
    img,    \* the image: w, h, stride, data
    eye,    \* the Eye being built: x, y, alter_type
    seen,   \* what the last Eye::look with this eye returned
    op,     \* the last call made on the image and its outcome
    it,     \* the ImageIterator made by iter()
    itm,    \* the ImageMutIterator made by iter_mut()
    nmut,   \* the number of mutating calls made on the image
    kern,   \* the kernel or filter last constructed
    out,    \* the image the last filter application returned
    built,  \* the last call of a kernel or filter constructor
    pop     \* the last operation on pixel values and its outcome

vars == <<kind, made, img, eye, seen, op, it, itm, nmut, kern, out, built, pop>>
eyeVars == <<eye, seen>>
imgVars == <<op, it, itm, nmut>>
fltVars == <<kern, out, built>>
pixVars == <<pop>>

(***************************************************************************)
(* Bounds of the model.                                                    *)
(***************************************************************************)
\* Image widths and heights range over 0..MaxDim.
MaxDim == 3
\* At most MaxMutations mutating calls are made on an image.
MaxMutations == 1
\* The sizes handed to the constructors of GaussianKernel, BoxFilter and
\* MedianFilter range over 0..MaxWindow.
MaxWindow == 3
\* The largest number of cells of an image whose cells are computed one by
\* one, in any order
MaxCells == 4
\* How far an iterator's y is driven beyond the height of the image by calls
\* of next() that return None (y is a u32 and stays far below 2^32)
MaxNone == 1

(***************************************************************************)
(* Primitive types.                                                        *)
(***************************************************************************)
\* u8::min_value() and u8::max_value()
min_value == 0
max_value == 2^8 - 1

Min(a, b) == IF a < b THEN a ELSE b
Max(a, b) == IF a > b THEN a ELSE b

(***************************************************************************)
(* Pixel kinds (pixel.rs).                                                 *)
(***************************************************************************)
Kinds == {"Gray", "BGR", "BGRA"}

channels(k) ==
    CASE k = "Gray" -> 1
      [] k = "BGR" -> 3
      [] k = "BGRA" -> 4

bits_per_pixel(k) == 8 * channels(k)

\* Pixel::zero(): every channel is T::zero()
zero(k) == [c \in 1..channels(k) |-> 0]

\* A pixel of kind k whose channels all hold v (gray(15u8) of the tests).
Uniform(k, v) == [c \in 1..channels(k) |-> v]

\* The placeholder for "no pixel" in the records of the model.
NoPixel == <<>>

\* Pixel::from_raw: t.data[i] = data[i] for every channel i, the slice index
\* panicking when the slice has no element i.  Nothing looks at the length of
\* the slice otherwise.
from_raw(k, data) ==
    IF \E i \in 0..(channels(k) - 1) : i >= Len(data)
    THEN [panic |-> TRUE, value |-> NoPixel]
    ELSE [panic |-> FALSE, value |-> [c \in 1..channels(k) |-> data[c]]]

\* NumCast of an f32 to the subpixel type (T::from(v), cast(v)), the f32 being
\* the quotient n/d of two integers with d > 0: None when the value is outside
\* the range of the type, else the value with its fraction dropped.
NumCast(n, d) ==
    IF n < min_value * d \/ n > max_value * d
    THEN [none |-> TRUE, value |-> 0]
    ELSE [none |-> FALSE, value |-> n \div d]

\* One channel of pixel + scalar, pixel - scalar and pixel * scalar, on the f32
\* values a of the channel and b of the scalar: one comparison with a bound of
\* the type, else the cast of the result, unwrapped.
add_channel(a, b) ==
    IF max_value < a + b
    THEN [none |-> FALSE, value |-> max_value]
    ELSE NumCast(a + b, 1)

sub_channel(a, b) ==
    IF min_value > a - b
    THEN [none |-> FALSE, value |-> min_value]
    ELSE NumCast(a - b, 1)

mul_channel(a, b) ==
    IF max_value < a * b
    THEN [none |-> FALSE, value |-> max_value]
    ELSE NumCast(a * b, 1)

\* The loop over the channels that the three scalar operators share: the
\* unwrap of a None panics.
scalar_op(name, p, s) ==
    LET m == [c \in 1..Len(p) |->
                 CASE name = "add" -> add_channel(p[c], s)
                   [] name = "sub" -> sub_channel(p[c], s)
                   [] name = "mul" -> mul_channel(p[c], s)]
    IN  IF \E c \in 1..Len(p) : m[c].none
        THEN [panic |-> TRUE, value |-> NoPixel]
        ELSE [panic |-> FALSE, value |-> [c \in 1..Len(p) |-> m[c].value]]

\* u8::saturating_add and u8::saturating_sub
u8_wrapping_add(a, b) == (a + b) % 2^8
u8_saturating_add(a, b) == IF a + b > max_value THEN max_value ELSE a + b
u8_saturating_sub(a, b) == IF a - b < min_value THEN min_value ELSE a - b

\* Saturating::saturating_add and saturating_sub of a pixel: m starts as the
\* channels of self, and every channel of m is combined with the same channel
\* of other.
saturating_add(p, other) ==
    [c \in 1..Len(p) |-> u8_saturating_add(p[c], other[c])]
saturating_sub(p, other) ==
    [c \in 1..Len(p) |-> u8_saturating_sub(p[c], other[c])]

\* The record of an operation on pixel values: its name, the pixel a it was
\* called on, the pixel b, the scalar s or the slice raw it was given, whether
\* it panicked and the pixel it returned.
PixelOp(name, a, b, s, raw, panic, ret) ==
    [name |-> name, a |-> a, b |-> b, s |-> s, raw |-> raw, panic |-> panic,
     ret |-> ret]

NoPixelOp == PixelOp("none", NoPixel, NoPixel, 0, <<>>, FALSE, NoPixel)

(***************************************************************************)
(* Image (image.rs).                                                       *)
(***************************************************************************)
\* The contents of a buffer that Vec::set_len leaves uninitialised: arbitrary
\* bytes, drawn here from a family of byte patterns indexed by seed, the
\* multiples of seed + 1.  With seed 0 a Gray buffer of 9 pixels is the test
\* image 1,2,...,9; with seed 96 neighbouring bytes differ by 97 or by 97 - 256.
Garbage(k, len, seed) ==
    [i \in 1..len |->
        [c \in 1..channels(k) |->
            ((seed + 1) * ((i - 1) * channels(k) + c)) % 2^8]]

GarbageSeeds == {0, 96}

\* Image::new(width, height), its uninitialised contents being data
new(width, height, data) ==
    [w |-> width, h |-> height, stride |-> width, data |-> data]

\* Index<(u32, u32)>::index and IndexMut::index_mut compute the same offset;
\* the Vec index panics when the offset is not below the buffer length.
\* (The coordinates of the model are far below the 2^32 at which the u32
\* offset would overflow.)
index(im, x, y) ==
    LET off == im.stride * y + x
    IN  IF off < Len(im.data)
        THEN [panic |-> FALSE, off |-> off, value |-> im.data[off + 1]]
        ELSE [panic |-> TRUE, off |-> off, value |-> NoPixel]

\* Image::row and Image::row_mut take the same slice of the buffer; the slice
\* panics when it ends beyond the buffer.
row(im, r) ==
    LET start == r * im.stride
    IN  IF start + im.stride <= Len(im.data)
        THEN [panic |-> FALSE, start |-> start,
              slice |-> SubSeq(im.data, start + 1, start + im.stride)]
        ELSE [panic |-> TRUE, start |-> start, slice |-> <<>>]

\* Image::fill
fill_first(im, v) ==
    [im EXCEPT !.data = [i \in 1..Len(im.data) |-> IF i = 1 THEN v ELSE im.data[i]]]
fill(im, v) == [im EXCEPT !.data = [i \in 1..Len(im.data) |-> v]]

\* Image::fill_channel: the assertion, then channel ch_idx of every pixel
fill_channel_all(im, k, ch_idx, v) ==
    IF ch_idx < channels(k)
    THEN [panic |-> FALSE,
          img |-> [im EXCEPT !.data =
                      [i \in 1..Len(im.data) |-> [c \in 1..channels(k) |-> v]]]]
    ELSE [panic |-> TRUE, img |-> im]
fill_channel(im, k, ch_idx, v) ==
    IF ch_idx < channels(k)
    THEN [panic |-> FALSE,
          img |-> [im EXCEPT !.data =
                      [i \in 1..Len(im.data) |->
                          [im.data[i] EXCEPT ![ch_idx + 1] = v]]]]
    ELSE [panic |-> TRUE, img |-> im]

\* The kinds that implement AlphaPixel, and AlphaPixel::alpha_index
HasAlpha(k) == k = "BGRA"
alpha_index == 3

\* AlphaImage::set_alpha
set_alpha(im, k) == fill_channel(im, k, alpha_index, max_value)

\* Image::bytes_per_row, Image::pitch and the length of Image::raw
bytes_per_row(im, k) == im.stride * (bits_per_pixel(k) \div 8)
pitch(im, k) == im.stride * (bits_per_pixel(k) \div 8)
raw_len_bits(im, k) == im.stride * bits_per_pixel(k) * im.h
raw_len(im, k) == bytes_per_row(im, k) * im.h

\* The record of a call on the image: its name, its arguments (coordinates x
\* and y or a channel index in x, a pixel p, a subpixel s), whether it
\* panicked, the pixel or the slice it returned, and (for the calls whose frame
\* is of interest) the image before the call.
Call(name, x, y, p, s, panic, ret, pre) ==
    [name |-> name, x |-> x, y |-> y, p |-> p, s |-> s, panic |-> panic,
     ret |-> ret, pre |-> pre]

NoImage == <<>>
NoCall == Call("none", 0, 0, NoPixel, 0, FALSE, NoPixel, NoImage)

\* ImageIterator: its fields x, y and row, with what the model observes of
\* it: whether it is alive, whether next() has returned None, whether a call
\* panicked, and the triples (x, y, pixel) it has yielded.
NoIter ==
    [live |-> FALSE, ended |-> FALSE, panic |-> FALSE, x |-> 0, y |-> 0,
     row |-> <<>>, log |-> <<>>]

\* Image::iter: the iterator starts on row(0), which panics if there is none
iter(im) ==
    LET r == row(im, 0)
    IN  IF r.panic
        THEN [NoIter EXCEPT !.panic = TRUE]
        ELSE [NoIter EXCEPT !.live = TRUE, !.row = r.slice]

\* The position ImageIterator::next moves to before it yields: at the end of
\* a row, the start of the next row, or None after the last row.
iter_advance(i, im) ==
    IF i.x >= im.w
    THEN IF i.y + 1 >= im.h
         THEN [none |-> TRUE, panic |-> FALSE, x |-> i.x, y |-> i.y + 1,
               row |-> i.row]
         ELSE LET r == row(im, i.y + 1)
              IN  [none |-> FALSE, panic |-> r.panic, x |-> 0, y |-> i.y + 1,
                   row |-> r.slice]
    ELSE [none |-> FALSE, panic |-> FALSE, x |-> i.x, y |-> i.y, row |-> i.row]

\* ImageIterator::next
iter_next(i, im) ==
    LET a == iter_advance(i, im)
    IN  IF a.none
        THEN [i EXCEPT !.y = a.y, !.ended = TRUE]
        ELSE IF a.panic \/ a.x >= Len(a.row)
        THEN [i EXCEPT !.y = a.y, !.x = a.x, !.live = FALSE, !.panic = TRUE]
        ELSE [i EXCEPT !.y = a.y, !.x = a.x + 1, !.row = a.row,
                       !.log = Append(@, <<a.x, a.y, a.row[a.x + 1]>>)]

\* ImageMutIterator: its fields x and y, and what the model observes of it:
\* the closure f the caller runs on every pixel yielded, and the triples
\* (x, y, pixel written) of its yields.
NoIterMut ==
    [live |-> FALSE, ended |-> FALSE, panic |-> FALSE, x |-> 0, y |-> 0,
     f |-> "none", log |-> <<>>]

\* Image::iter_mut
iter_mut(f) == [NoIterMut EXCEPT !.live = TRUE, !.f = f]

\* The bodies of the callers' loops over iter_mut(): "set" stores the pixel of
\* test_iter, "tag" stores a pixel that tells the cell, "keep" stores nothing.
Closures == {"set", "tag", "keep"}

\* BGRA([128, 128, 0, 0]) of test_iter, cut to the channels of the kind
TestPixel(k) == [c \in 1..channels(k) |-> IF c <= 2 THEN 2^7 ELSE 0]

Written(f, k, x, y, old) ==
    CASE f = "set" -> TestPixel(k)
      [] f = "tag" -> Uniform(k, 2^7 + 2^4 * y + x)
      [] f = "keep" -> old

\* ImageMutIterator::next, followed by the caller's store through the
\* reference it yields.  The result is the iterator and the image.
iter_mut_next_swapped(i, im, k) ==
    LET x == IF i.x >= im.w THEN 0 ELSE i.x
        y == IF i.x >= im.w THEN i.y + 1 ELSE i.y
    IN  IF y >= im.h
        THEN [itm |-> [i EXCEPT !.x = x, !.y = y, !.ended = TRUE], img |-> im]
        ELSE LET r == row(im, x)
             IN  IF r.panic \/ y >= Len(r.slice)
                 THEN [itm |-> [i EXCEPT !.x = x, !.y = y, !.live = FALSE,
                                         !.panic = TRUE],
                       img |-> im]
                 ELSE LET v == Written(i.f, k, x, y, r.slice[y + 1])
                      IN  [itm |-> [i EXCEPT !.x = x + 1, !.y = y,
                                             !.log = Append(@, <<x, y, v>>)],
                           img |-> [im EXCEPT !.data[r.start + y + 1] = v]]
iter_mut_next(i, im, k) ==
    LET x == IF i.x >= im.w THEN 0 ELSE i.x
        y == IF i.x >= im.w THEN i.y + 1 ELSE i.y
    IN  IF y >= im.h
        THEN [itm |-> [i EXCEPT !.x = x, !.y = y, !.ended = TRUE], img |-> im]
        ELSE LET r == row(im, y)
             IN  IF r.panic \/ x >= Len(r.slice)
                 THEN [itm |-> [i EXCEPT !.x = x, !.y = y, !.live = FALSE,
                                         !.panic = TRUE],
                       img |-> im]
                 ELSE LET v == Written(i.f, k, x, y, r.slice[x + 1])
                      IN  [itm |-> [i EXCEPT !.x = x + 1, !.y = y,
                                             !.log = Append(@, <<x, y, v>>)],
                           img |-> [im EXCEPT !.data[r.start + x + 1] = v]]

(***************************************************************************)
(* Eye (eye.rs).                                                           *)
(***************************************************************************)
Constant(p) == [tag |-> "Constant", pixel |-> p]
Mirror == [tag |-> "Mirror", pixel |-> NoPixel]
Extend == [tag |-> "Extend", pixel |-> NoPixel]

\* Default for Eye
default == [x |-> 0, y |-> 0, alter_type |-> Extend]

\* The outcome of Eye::look: the path taken, the coordinate at which the image
\* was finally indexed (when it was), and the pixel returned or the panic.
LookResult(path, x, y, r) ==
    [path |-> path, indexed |-> TRUE, x |-> x, y |-> y,
     panic |-> r.panic, value |-> r.value]

\* The bounds test at the head of Eye::look
in_bounds_incl(e, im) == 0 <= e.x /\ e.x <= im.w /\ 0 <= e.y /\ e.y <= im.h
in_bounds(e, im) == 0 <= e.x /\ e.x < im.w /\ 0 <= e.y /\ e.y < im.h

\* The Constant arm
look_constant(e) ==
    [path |-> "constant", indexed |-> FALSE, x |-> e.x, y |-> e.y,
     panic |-> FALSE, value |-> e.alter_type.pixel]

\* One axis of the Extend arm: min with the dimension less one, then max with 0
extend_axis_off(c, d) == Max(Min(c, d), 0)
extend_axis(c, d) == Max(Min(c, d - 1), 0)

\* The Extend arm
look_extend(e, im) ==
    LET x == extend_axis(e.x, im.w)
        y == extend_axis(e.y, im.h)
    IN  LookResult("extend", x, y, index(im, x, y))

\* One axis of the Mirror arm: c is reflected through zero, then a c above the
\* dimension d becomes d - c % d.  The remainder by zero panics.
mirror_axis_wrap(c, d) ==
    LET c1 == IF c < 0 THEN -c ELSE c
    IN  IF c1 > d
        THEN IF d = 0
             THEN [panic |-> TRUE, c |-> c1]
             ELSE [panic |-> FALSE, c |-> c1 % d]
        ELSE [panic |-> FALSE, c |-> c1]
mirror_axis(c, d) ==
    LET c1 == IF c < 0 THEN -c ELSE c
    IN  IF c1 > d
        THEN IF d = 0
             THEN [panic |-> TRUE, c |-> c1]
             ELSE [panic |-> FALSE, c |-> d - (c1 % d)]
        ELSE [panic |-> FALSE, c |-> c1]

\* The Mirror arm
look_mirror(e, im) ==
    LET mx == mirror_axis(e.x, im.w)
        my == mirror_axis(e.y, im.h)
    IN  IF mx.panic \/ my.panic
        THEN [path |-> "mirror", indexed |-> FALSE, x |-> mx.c, y |-> my.c,
              panic |-> TRUE, value |-> NoPixel]
        ELSE LookResult("mirror", mx.c, my.c, index(im, mx.c, my.c))

\* Eye::look
look(e, im) ==
    IF in_bounds(e, im)
    THEN LookResult("direct", e.x, e.y, index(im, e.x, e.y))
    ELSE CASE e.alter_type.tag = "Constant" -> look_constant(e)
           [] e.alter_type.tag = "Extend" -> look_extend(e, im)
           [] e.alter_type.tag = "Mirror" -> look_mirror(e, im)

\* No look has been made with the current eye.
NoLook ==
    [path |-> "none", indexed |-> FALSE, x |-> 0, y |-> 0,
     panic |-> FALSE, value |-> NoPixel]

(***************************************************************************)
(* Kernels and filters (op/filter.rs).  An f32 kernel weight is modelled as *)
(* a fraction: cell data[y][x] of a kernel holds the integer n that stands *)
(* for the weight n * 2^exp / unit, and nan tells that the weights are     *)
(* NaN.  exp is 0 but for the kernels of huge weights (unit 1).  The       *)
(* weights handed to GeneralKernel::new are the f32 values of small        *)
(* integers (unit 1), for which the f32 products and sums of the           *)
(* convolution are exact; the rounding of f32 arithmetic on the weights of *)
(* a GaussianKernel is not modelled.  A filter that is not a kernel has a  *)
(* width and a height and no weights.                                      *)
(***************************************************************************)
NoKernel ==
    [type |-> "none", panic |-> FALSE, width |-> 0, height |-> 0,
     data |-> <<>>, unit |-> 1, exp |-> 0, nan |-> FALSE]

\* GeneralKernel::new: the assertion, then the weights row by row
GeneralKernel(width, height, _data) ==
    IF width * height = Len(_data)
    THEN [NoKernel EXCEPT !.type = "GeneralKernel", !.width = width,
                          !.height = height,
                          !.data = [i \in 1..height |->
                                      [j \in 1..width |->
                                          _data[(i - 1) * width + j]]]]
    ELSE [NoKernel EXCEPT !.type = "GeneralKernel", !.panic = TRUE]

\* f32 values are below 2^128 in magnitude (f32::MAX is 2^128 - 2^104).
F32_MAX_EXP == 128

\* Index<(usize, usize)> for a kernel: kern[(x, y)]
kern_at(k, x, y) == k.data[y + 1][x + 1]

\* The comparisons of clip_from_f32, on f32 values that are multiples of the
\* same unit; the cast of the result to the subpixel type is NumCast.
clip_from_f32(x, min, max) ==
    IF x < min THEN min ELSE IF x > max THEN max ELSE x

\* The f32 values of an accumulation with kernel k: the number n, in the
\* units of the kernel (n * 2^exp / unit), or an infinity or NaN.  A number
\* of magnitude 2^128 or more overflows to an infinity; below that, the
\* products and sums of small multiples of 2^exp are exact.
F32(tag, n) == [tag |-> tag, n |-> n]
NaN == F32("nan", 0)

f32_overflows(k, n) ==
    /\ k.exp > 0
    /\ (n >= 2^(F32_MAX_EXP - k.exp) \/ 0 - n >= 2^(F32_MAX_EXP - k.exp))

f32_num(k, n) ==
    IF f32_overflows(k, n)
    THEN IF n > 0 THEN F32("inf", 0) ELSE F32("-inf", 0)
    ELSE F32("num", n)

\* a + b in f32: NaN absorbs, opposite infinities give NaN
f32_add(k, a, b) ==
    CASE a.tag = "nan" \/ b.tag = "nan" -> NaN
      [] a.tag = "inf" -> IF b.tag = "-inf" THEN NaN ELSE a
      [] a.tag = "-inf" -> IF b.tag = "inf" THEN NaN ELSE a
      [] b.tag \in {"inf", "-inf"} -> b
      [] OTHER -> f32_num(k, a.n + b.n)

\* k.to_f32().unwrap() * b, for the subpixel v and the weight b of kernel k
f32_mul(k, v, b) == IF k.nan THEN NaN ELSE f32_num(k, v * b)

\* The accumulation of kern_calc_one_pos for channel c over the kernel cells
\* n, n+1, ..., in the order of its loops (i outer, j inner), starting at acc.
RECURSIVE kern_accumulate(_, _, _, _, _, _, _)
kern_accumulate(k, sx, sy, im, c, n, acc) ==
    IF n >= k.width * k.height
    THEN acc
    ELSE LET i == n \div k.height
             j == n % k.height
             a == look([default EXCEPT !.x = i + sx, !.y = j + sy], im)
             b == kern_at(k, i, j)
         IN  kern_accumulate(k, sx, sy, im, c, n + 1,
                             f32_add(k, acc, f32_mul(k, a.value[c], b)))

\* clip_from_f32 on an accumulated value, and its cast to the subpixel type.
\* No comparison with NaN holds, so NaN is returned as it is and its cast is
\* None.  A non-zero multiple of 2^exp, exp > 0, is beyond the subpixel range.
kern_clip(k, v) ==
    CASE v.tag = "nan" -> [none |-> TRUE, value |-> 0]
      [] v.tag = "inf" -> NumCast(max_value * k.unit, k.unit)
      [] v.tag = "-inf" -> NumCast(min_value * k.unit, k.unit)
      [] k.exp > 0 /\ v.n > 0 -> NumCast(max_value * k.unit, k.unit)
      [] k.exp > 0 /\ v.n < 0 -> NumCast(min_value * k.unit, k.unit)
      [] OTHER -> NumCast(clip_from_f32(v.n, min_value * k.unit,
                                        max_value * k.unit), k.unit)

\* Channel c of kern_calc_one_pos: the clipped sum, or None
kern_channel(k, x, y, im, c) ==
    LET sx == x - k.width \div 2
        sy == y - k.height \div 2
    IN  kern_clip(k, kern_accumulate(k, sx, sy, im, c, 0, F32("num", 0)))

\* kern_calc_one_pos
kern_calc_one_pos(k, x, y, im, pk) ==
    [c \in 1..channels(pk) |-> kern_channel(k, x, y, im, c).value]

\* The unwrap of clip_from_f32 panics at the first cell one of whose channels
\* has accumulated to NaN: with NaN weights every cell, with finite weights a
\* cell where products of both signs overflow.
kern_calc_panics(k, im, pk) ==
    \E x \in 0..(im.w - 1), y \in 0..(im.h - 1), c \in 1..channels(pk) :
        kern_channel(k, x, y, im, c).none

\* ret[(x, y)] = v
store_swapped(ret, x, y, v) == [ret EXCEPT !.data[index(ret, y, x).off + 1] = v]
store(ret, x, y, v) == [ret EXCEPT !.data[index(ret, x, y).off + 1] = v]

\* The loops of Filter::filter for a kernel, from cell n on (y outer, x inner)
RECURSIVE kernel_filter_loop(_, _, _, _, _)
kernel_filter_loop(k, im, pk, ret, n) ==
    IF n >= im.w * im.h
    THEN ret
    ELSE LET y == n \div im.w
             x == n % im.w
         IN  kernel_filter_loop(k, im, pk,
                 store(ret, x, y, kern_calc_one_pos(k, x, y, im, pk)), n + 1)

\* Filter::filter for GeneralKernel and GaussianKernel; the output image is
\* allocated by Image::new, with contents garbage.
kernel_filter(k, im, pk, garbage) ==
    kernel_filter_loop(k, im, pk, new(im.w, im.h, garbage), 0)

(***************************************************************************)
(* GaussianKernel::new(size, sigma).  sigma is a power of two, 2^e, so     *)
(* that the f32 product 2f32*sigma*sigma is the power of two 2^(2e+1),     *)
(* which underflows to zero below the smallest subnormal 2^-149 and        *)
(* overflows to infinity above 2^127.  An exponent passed to exp() is      *)
(* counted in halves, and a value of exp() in units of 1/ExpUnit.          *)
(***************************************************************************)
ExpUnit == 2^15

\* The f32 value of 2f32 * sigma * sigma for sigma = 2^e: zero, infinite, or
\* the power of two 2^k
two_sigma_sq(e) ==
    LET k == 2 * e + 1
    IN  IF k < -149 THEN [cls |-> "zero", k |-> 0]
        ELSE IF k > 127 THEN [cls |-> "inf", k |-> 0]
        ELSE [cls |-> "num", k |-> k]

\* The f32 quotient (d * d) / (2f32 * sigma * sigma) for a distance d, in
\* halves: 0/0 is NaN, n/0 is infinite, n/inf is 0.  (The sigmas of the
\* model whose divisor is a number have k <= 1.)
gauss_term(d, e) ==
    LET q == two_sigma_sq(e)
    IN  CASE q.cls = "zero" ->
                 IF d * d = 0 THEN [cls |-> "nan", h |-> 0]
                 ELSE [cls |-> "inf", h |-> 0]
          [] q.cls = "inf" -> [cls |-> "num", h |-> 0]
          [] q.cls = "num" -> [cls |-> "num", h |-> d * d * 2^(1 - q.k)]

\* exp(-h/2) in units of 1/ExpUnit, as the h-th power of exp(-1/2), which is
\* 19875/2^15; it is below every positive f32 from h = 208 on.
RECURSIVE exp_neg(_)
exp_neg(h) ==
    IF h = 0 THEN ExpUnit
    ELSE IF h >= 208 THEN 0
    ELSE (exp_neg(h - 1) * 19875 + (ExpUnit \div 2)) \div ExpUnit

\* The value pushed for cell (x, y): exp(-(dx*dx/(2 sigma^2) + dy*dy/(2 sigma^2)))
gauss_cell(x, y, size, e) ==
    LET dx == IF x < size \div 2 THEN size \div 2 - x ELSE x - size \div 2
        dy == IF y < size \div 2 THEN size \div 2 - y ELSE y - size \div 2
        tx == gauss_term(dx, e)
        ty == gauss_term(dy, e)
    IN  IF tx.cls = "nan" \/ ty.cls = "nan" THEN [nan |-> TRUE, n |-> 0]
        ELSE IF tx.cls = "inf" \/ ty.cls = "inf" THEN [nan |-> FALSE, n |-> 0]
        ELSE [nan |-> FALSE, n |-> exp_neg(tx.h + ty.h)]

\* The first loop of normalize: the sum of kern[(x, y)] from cell n on
RECURSIVE kern_sum(_, _, _)
kern_sum(k, n, acc) ==
    IF n >= k.width * k.height
    THEN acc
    ELSE kern_sum(k, n + 1, acc + kern_at(k, n \div k.height, n % k.height))

\* normalize: every weight is divided by the sum of the weights.  A weight
\* n/unit divided by the sum s/unit is n/s; a NaN among the weights makes the
\* sum and then every weight NaN, and so does a sum of zero over zero weights.
normalize(k) ==
    LET sum == kern_sum(k, 0, 0)
    IN  IF k.nan \/ sum = 0
        THEN [k EXCEPT !.nan = TRUE]
        ELSE [k EXCEPT !.unit = sum]

\* GaussianKernel::new: the assertion, the cells pushed row by row (the outer
\* loop variable is called x), then normalize
GaussianKernel(size, e) ==
    IF size % 2 # 1
    THEN [NoKernel EXCEPT !.type = "GaussianKernel", !.panic = TRUE]
    ELSE normalize(
             [NoKernel EXCEPT
                 !.type = "GaussianKernel", !.width = size, !.height = size,
                 !.data = [x \in 1..size |->
                              [y \in 1..size |->
                                  gauss_cell(x - 1, y - 1, size, e).n]],
                 !.unit = ExpUnit,
                 !.nan = \E x \in 0..(size - 1), y \in 0..(size - 1) :
                             gauss_cell(x, y, size, e).nan])

(***************************************************************************)
(* MedianFilter.                                                           *)
(***************************************************************************)
\* MedianFilter::new: the two assertions
MedianFilter_new(width, height) ==
    IF width % 2 = 1 /\ height % 2 = 1
    THEN [NoKernel EXCEPT !.type = "MedianFilter", !.width = width,
                          !.height = height]
    ELSE [NoKernel EXCEPT !.type = "MedianFilter", !.panic = TRUE]

\* The values pushed to counter for channel c: the window is walked from its
\* cell n on (x outer, y inner) and the cells inside the image are read.
RECURSIVE median_collect(_, _, _, _, _, _, _)
median_collect(f, sx, sy, im, c, n, counter) ==
    IF n >= f.width * f.height
    THEN counter
    ELSE LET x == sx + (n \div f.height)
             y == sy + (n % f.height)
         IN  median_collect(f, sx, sy, im, c, n + 1,
                 IF 0 <= x /\ x < im.w /\ 0 <= y /\ y < im.h
                 THEN Append(counter, index(im, x, y).value[c])
                 ELSE counter)

\* counter.sort_by: the values in ascending order
RECURSIVE sort_insert(_, _)
sort_insert(sorted, v) ==
    IF sorted = <<>> \/ v >= sorted[Len(sorted)]
    THEN Append(sorted, v)
    ELSE Append(sort_insert(SubSeq(sorted, 1, Len(sorted) - 1), v),
                sorted[Len(sorted)])

RECURSIVE sort_by(_)
sort_by(counter) ==
    IF counter = <<>> THEN <<>>
    ELSE sort_insert(sort_by(SubSeq(counter, 1, Len(counter) - 1)),
                     counter[Len(counter)])

\* median_filter_calc_one
median_pick_low(sorted) == sorted[(Len(sorted) - 1) \div 2 + 1]
median_pick(sorted) == sorted[Len(sorted) \div 2 + 1]

median_filter_calc_one(f, x, y, im, pk) ==
    LET sx == x - f.width \div 2
        sy == y - f.height \div 2
    IN  [c \in 1..channels(pk) |->
            median_pick(sort_by(median_collect(f, sx, sy, im, c, 0, <<>>)))]

\* The loops of Filter::filter for MedianFilter, from cell n on (x outer, y
\* inner)
RECURSIVE median_filter_loop(_, _, _, _, _)
median_filter_loop(f, im, pk, ret, n) ==
    IF n >= im.w * im.h
    THEN ret
    ELSE LET x == n \div im.h
             y == n % im.h
         IN  median_filter_loop(f, im, pk,
                 store(ret, x, y, median_filter_calc_one(f, x, y, im, pk)),
                 n + 1)

\* Filter::filter for MedianFilter
median_filter_transposed(f, im, pk, garbage) ==
    median_filter_loop(f, im, pk, new(im.h, im.w, garbage), 0)
median_filter(f, im, pk, garbage) ==
    median_filter_loop(f, im, pk, new(im.w, im.h, garbage), 0)

(***************************************************************************)
(* BoxFilter.                                                              *)
(***************************************************************************)
\* BoxFilter::new: the two assertions
BoxFilter_width_only(width, height) ==
    IF width % 2 = 1
    THEN [NoKernel EXCEPT !.type = "BoxFilter", !.width = width,
                          !.height = height]
    ELSE [NoKernel EXCEPT !.type = "BoxFilter", !.panic = TRUE]
BoxFilter_new(width, height) ==
    IF width % 2 = 1 /\ height % 2 = 1
    THEN [NoKernel EXCEPT !.type = "BoxFilter", !.width = width,
                          !.height = height]
    ELSE [NoKernel EXCEPT !.type = "BoxFilter", !.panic = TRUE]

\* The sum of box_filter_calc_one for channel c over the window cells n,
\* n+1, ... (i outer, j inner), each read by Eye::new(i, j).look(img)
box_look_zero(i, j, im, pk) ==
    look([default EXCEPT !.x = i, !.y = j,
                         !.alter_type = Constant(zero(pk))], im)
box_look(i, j, im, pk) == look([default EXCEPT !.x = i, !.y = j], im)

RECURSIVE box_accumulate_transposed(_, _, _, _, _, _, _, _)
box_accumulate_transposed(f, sx, sy, im, pk, c, n, sum) ==
    IF n >= f.width * f.height
    THEN sum
    ELSE LET i == sx + (n % f.height)
             j == sy + (n \div f.height)
         IN  box_accumulate_transposed(f, sx, sy, im, pk, c, n + 1,
                                       sum + box_look(i, j, im, pk).value[c])
RECURSIVE box_accumulate(_, _, _, _, _, _, _, _)
box_accumulate(f, sx, sy, im, pk, c, n, sum) ==
    IF n >= f.width * f.height
    THEN sum
    ELSE LET i == sx + (n \div f.height)
             j == sy + (n % f.height)
         IN  box_accumulate(f, sx, sy, im, pk, c, n + 1,
                            sum + box_look(i, j, im, pk).value[c])

\* box_filter_calc_one: cast(sum / size).unwrap() for every channel
box_filter_calc_one(f, x, y, im, pk) ==
    LET sx == x - f.width \div 2
        sy == y - f.height \div 2
        size == f.width * f.height
        m == [c \in 1..channels(pk) |->
                 NumCast(box_accumulate(f, sx, sy, im, pk, c, 0, 0), size)]
    IN  IF \E c \in 1..channels(pk) : m[c].none
        THEN [panic |-> TRUE, value |-> NoPixel]
        ELSE [panic |-> FALSE, value |-> [c \in 1..channels(pk) |-> m[c].value]]

\* The loops of Filter::filter for BoxFilter, from cell n on (x outer, y
\* inner); a panic leaves no image.
RECURSIVE box_filter_loop(_, _, _, _, _)
box_filter_loop(f, im, pk, ret, n) ==
    IF n >= im.w * im.h
    THEN [panic |-> FALSE, image |-> ret]
    ELSE LET x == n \div im.h
             y == n % im.h
             v == box_filter_calc_one(f, x, y, im, pk)
         IN  IF v.panic
             THEN [panic |-> TRUE, image |-> NoImage]
             ELSE box_filter_loop(f, im, pk, store(ret, x, y, v.value), n + 1)

\* Filter::filter for BoxFilter
box_filter(f, im, pk, garbage) ==
    box_filter_loop(f, im, pk, new(im.w, im.h, garbage), 0)

(***************************************************************************)
(* Sobel (op/sobel.rs and op/edge_detect.rs).                              *)
(***************************************************************************)
\* Sobel::new
Sobel_new == [NoKernel EXCEPT !.type = "Sobel"]

_kernx == <<-1, 0, 1, -2, 0, 2, -1, 0, 1>>
_kerny == <<-1, -2, -1, 0, 0, 0, 1, 2, 1>>

\* imgx[(i, j)].saturating_add(imgy[(i, j)])
sobel_combine_wrapping(imgx, imgy, i, j) ==
    LET a == index(imgx, i, j).value
        b == index(imgy, i, j).value
    IN  [c \in 1..Len(a) |-> u8_wrapping_add(a[c], b[c])]
sobel_combine(imgx, imgy, i, j) ==
    saturating_add(index(imgx, i, j).value, index(imgy, i, j).value)

\* The loops of Filter::filter for Sobel in sobel.rs, from cell n on (i
\* outer, j inner)
RECURSIVE sobel_loop(_, _, _, _)
sobel_loop(imgx, imgy, ret, n) ==
    IF n >= ret.w * ret.h
    THEN ret
    ELSE LET i == n \div ret.h
             j == n % ret.h
         IN  sobel_loop(imgx, imgy,
                        store(ret, i, j, sobel_combine(imgx, imgy, i, j)),
                        n + 1)

\* Filter::filter for Sobel in sobel.rs
sobel_filter(im, pk, garbage) ==
    LET imgx == kernel_filter(GeneralKernel(3, 3, _kernx), im, pk, garbage)
        imgy == kernel_filter(GeneralKernel(3, 3, _kerny), im, pk, garbage)
    IN  sobel_loop(imgx, imgy, new(im.w, im.h, garbage), 0)

\* ret.iter_mut().for_each(...) of edge_detect.rs: the iterator i is advanced
\* until next() returns None, and the closure stores through every reference
\* it yields.
RECURSIVE edge_detect_for_each(_, _, _, _, _)
edge_detect_for_each(i, imgx, imgy, ret, pk) ==
    LET r == iter_mut_next(i, ret, pk)
    IN  IF r.itm.ended THEN [panic |-> FALSE, image |-> ret]
        ELSE IF r.itm.panic THEN [panic |-> TRUE, image |-> NoImage]
        ELSE LET e == r.itm.log[Len(r.itm.log)]
                 v == sobel_combine(imgx, imgy, e[1], e[2])
             IN  edge_detect_for_each(r.itm, imgx, imgy,
                     [ret EXCEPT !.data[e[2] * ret.stride + e[1] + 1] = v],
                     pk)

\* Filter::filter for Sobel in edge_detect.rs
edge_detect_filter(im, pk, garbage) ==
    LET imgx == kernel_filter(GeneralKernel(3, 3, _kernx), im, pk, garbage)
        imgy == kernel_filter(GeneralKernel(3, 3, _kerny), im, pk, garbage)
    IN  edge_detect_for_each(iter_mut("keep"), imgx, imgy,
                             new(im.w, im.h, garbage), pk)

\* What a filter application returned; a panic returns nothing.  While the
\* cells of an application are computed one by one, image is the output
\* buffer ret and done the cells computed so far.
NoOutput == [made |-> FALSE, by |-> "none", image |-> NoImage, done |-> {}]
Output(by, image) ==
    [made |-> TRUE, by |-> by, image |-> image, done |-> {}]
Failed(by) == [made |-> FALSE, by |-> by, image |-> NoImage, done |-> {}]
Partial(by, image, done) ==
    [made |-> FALSE, by |-> by, image |-> image, done |-> done]

\* The body of the loops of Filter::filter for cell (x, y): the pixel is
\* computed from the filter and the input image and stored in ret.
cell_panics(f, im, pk, x, y) ==
    CASE f.type \in {"GeneralKernel", "GaussianKernel"} ->
             \E c \in 1..channels(pk) : kern_channel(f, x, y, im, c).none
      [] f.type = "BoxFilter" -> box_filter_calc_one(f, x, y, im, pk).panic
      [] OTHER -> FALSE

calc_one(f, x, y, im, pk) ==
    CASE f.type \in {"GeneralKernel", "GaussianKernel"} ->
             kern_calc_one_pos(f, x, y, im, pk)
      [] f.type = "BoxFilter" -> box_filter_calc_one(f, x, y, im, pk).value
      [] OTHER -> median_filter_calc_one(f, x, y, im, pk)

filter_cell_in_place(f, im, pk, ret, x, y) ==
    store(ret, x, y, calc_one(f, x, y, ret, pk))
filter_cell(f, im, pk, ret, x, y) ==
    store(ret, x, y, calc_one(f, x, y, im, pk))

\* The name an application of the filter is recorded under
by_name(f) ==
    IF f.type \in {"GeneralKernel", "GaussianKernel"} THEN "kernel" ELSE f.type

\* The record of a constructor call: its name, the width and height (or the
\* size, twice) and the number of weights or the exponent of sigma it was
\* given, whether it panicked, and the weights handed to GeneralKernel::new.
Built(name, width, height, arg, panic) ==
    [name |-> name, width |-> width, height |-> height, arg |-> arg,
     panic |-> panic, weights |-> <<>>]

NoBuilt == Built("none", 0, 0, 0, FALSE)

(***************************************************************************)
(* Inputs.                                                                 *)
(***************************************************************************)
Dims == 0..MaxDim

\* Coordinates handed to the Eye: around and inside the image, and the far
\* coordinates of test_eye_look.
Coords == ((0 - MaxDim)..(2 * MaxDim)) \cup {-100, 100, 400}

\* The pixels handed to fill and to indexed stores, and the subpixels handed
\* to fill_channel.
FillPixels(k) == {TestPixel(k), Uniform(k, max_value)}
StorePixels(k) == {TestPixel(k)}
ChannelValues == {max_value, 2^4}

\* MAX_CHANNEL_COUNT of pixel.rs: channel indices handed to fill_channel
\* range over 0..MAX_CHANNEL_COUNT, which is out of range for every kind.
MAX_CHANNEL_COUNT == 4

\* The exponent of the huge weights: 2^126 is about 8.5e37, below f32::MAX.
HugeExp == F32_MAX_EXP - 2

\* The arguments handed to GeneralKernel::new: the single-cell kernels of
\* weight 1 and 2, the horizontal Sobel kernel, the kernel of test_convolution,
\* a 3 x 1 kernel that reads the right-hand neighbour, a 2 x 2 kernel, a
\* 2 x 3 kernel whose weights all differ, weight vectors whose length is not
\* width*height, and two kernels of huge finite weights: (2^126, -2^126) and
\* (2^127, -2^126, -2^126).  The weights are data[p] * 2^exp.
KernelInputs ==
    { [width |-> 1, height |-> 1, exp |-> 0, data |-> <<1>>],
      [width |-> 1, height |-> 1, exp |-> 0, data |-> <<2>>],
      [width |-> 3, height |-> 3, exp |-> 0,
       data |-> <<-1, 0, 1, -2, 0, 2, -1, 0, 1>>],
      [width |-> 3, height |-> 3, exp |-> 0,
       data |-> <<0, 0, 1, 0, 0, 1, 0, 0, 1>>],
      [width |-> 3, height |-> 1, exp |-> 0, data |-> <<0, 0, 1>>],
      [width |-> 2, height |-> 2, exp |-> 0, data |-> <<1, 1, 1, 1>>],
      [width |-> 2, height |-> 3, exp |-> 0, data |-> <<1, -2, 3, -1, 2, 0>>],
      [width |-> 2, height |-> 2, exp |-> 0, data |-> <<1, 1, 1>>],
      [width |-> 1, height |-> 1, exp |-> 0, data |-> <<1, 1>>],
      [width |-> 2, height |-> 1, exp |-> HugeExp, data |-> <<1, -1>>],
      [width |-> 3, height |-> 1, exp |-> HugeExp, data |-> <<2, -1, -1>>] }

\* The sizes handed to the constructors of the other filters
Windows == 0..MaxWindow

\* The sigmas handed to GaussianKernel::new, as exponents e of sigma = 2^e:
\* 2^-76, 1/2, 1 and 2^64, all positive f32 values.
SigmaExps == {-76, -1, 0, 64}

\* The constant of the Constant policy: gray(15u8) of test_eye_look.
ConstValues == {15}

\* The pixels handed to the operations on pixel values: zero, the pixel of
\* test_iter, the brightest pixel and a pixel whose channels all differ.
PixelInputs(k) ==
    {zero(k), TestPixel(k), Uniform(k, max_value),
     [c \in 1..channels(k) |-> (100 * c) % 2^8]}

\* The scalars handed to pixel + s, pixel - s and pixel * s, of either sign.
Scalars == {-200, -2, -1, 0, 1, 2, 3, 200}

\* The slices handed to Pixel::from_raw: the first n elements of a slice of
\* MAX_CHANNEL_COUNT + 1 subpixels, for every n.
RawSlices ==
    {SubSeq(<<7, 200, 255, 0, 9>>, 1, n) : n \in 0..(MAX_CHANNEL_COUNT + 1)}

(***************************************************************************)
(* Initial states: a pixel kind, an image fresh from Image::new and an Eye *)
(* fresh from Eye::new(x, y).                                              *)
(***************************************************************************)
Init ==
    /\ kind \in Kinds
    /\ \E width \in Dims, height \in Dims, seed \in GarbageSeeds :
           /\ made = [width |-> width, height |-> height]
           /\ img = new(width, height, Garbage(kind, width * height, seed))
    /\ eye = default
    /\ seen = NoLook
    /\ op = NoCall
    /\ it = NoIter
    /\ itm = NoIterMut
    /\ nmut = 0
    /\ kern = NoKernel
    /\ out = NoOutput
    /\ built = NoBuilt
    /\ pop = NoPixelOp

(***************************************************************************)
(* Eye operations.                                                         *)
(***************************************************************************)
\* Eye::x
EyeX ==
    /\ \E x \in Coords : eye' = [eye EXCEPT !.x = x]
    /\ seen' = NoLook
    /\ UNCHANGED <<pixVars, kind, made, img, imgVars, fltVars>>

\* Eye::y
EyeY ==
    /\ \E y \in Coords : eye' = [eye EXCEPT !.y = y]
    /\ seen' = NoLook
    /\ UNCHANGED <<pixVars, kind, made, img, imgVars, fltVars>>

\* Eye::constant
EyeConstant ==
    /\ \E v \in ConstValues :
           eye' = [eye EXCEPT !.alter_type = Constant(Uniform(kind, v))]
    /\ seen' = NoLook
    /\ UNCHANGED <<pixVars, kind, made, img, imgVars, fltVars>>

\* Eye::mirror
EyeMirror ==
    /\ eye' = [eye EXCEPT !.alter_type = Mirror]
    /\ seen' = NoLook
    /\ UNCHANGED <<pixVars, kind, made, img, imgVars, fltVars>>

\* Eye::extend
EyeExtend ==
    /\ eye' = [eye EXCEPT !.alter_type = Extend]
    /\ seen' = NoLook
    /\ UNCHANGED <<pixVars, kind, made, img, imgVars, fltVars>>

\* Eye::look
Look ==
    /\ seen' = look(eye, img)
    /\ UNCHANGED <<pixVars, kind, made, img, eye, imgVars, fltVars>>

NextEye == EyeX \/ EyeY \/ EyeConstant \/ EyeMirror \/ EyeExtend \/ Look

SpecEye == Init /\ [][NextEye]_vars

(***************************************************************************)
(* Image operations.  While an iterator borrows the image no other call is *)
(* made on it; a call that is not an iterator's forgets the iterators.     *)
(***************************************************************************)
Unborrowed == ~it.live /\ ~itm.live

CanMutate == Unborrowed /\ nmut < MaxMutations

\* Image::fill
Fill ==
    /\ CanMutate
    /\ \E v \in FillPixels(kind) :
           /\ img' = fill(img, v)
           /\ op' = Call("fill", 0, 0, v, 0, FALSE, NoPixel, NoImage)
    /\ nmut' = nmut + 1
    /\ it' = NoIter /\ itm' = NoIterMut
    /\ UNCHANGED <<pixVars, kind, made, eyeVars, fltVars>>

\* Image::zero
Zero ==
    /\ CanMutate
    /\ img' = fill(img, zero(kind))
    /\ op' = Call("zero", 0, 0, NoPixel, 0, FALSE, NoPixel, NoImage)
    /\ nmut' = nmut + 1
    /\ it' = NoIter /\ itm' = NoIterMut
    /\ UNCHANGED <<pixVars, kind, made, eyeVars, fltVars>>

\* Image::fill_channel
FillChannel ==
    /\ CanMutate
    /\ \E ch_idx \in 0..MAX_CHANNEL_COUNT, v \in ChannelValues :
           LET r == fill_channel(img, kind, ch_idx, v)
           IN  /\ img' = r.img
               /\ op' = Call("fill_channel", ch_idx, 0, NoPixel, v, r.panic,
                             NoPixel, img)
    /\ nmut' = nmut + 1
    /\ it' = NoIter /\ itm' = NoIterMut
    /\ UNCHANGED <<pixVars, kind, made, eyeVars, fltVars>>

\* AlphaImage::set_alpha
SetAlpha ==
    /\ CanMutate
    /\ HasAlpha(kind)
    /\ LET r == set_alpha(img, kind)
       IN  /\ img' = r.img
           /\ op' = Call("set_alpha", alpha_index, 0, NoPixel, max_value,
                         r.panic, NoPixel, img)
    /\ nmut' = nmut + 1
    /\ it' = NoIter /\ itm' = NoIterMut
    /\ UNCHANGED <<pixVars, kind, made, eyeVars, fltVars>>

\* img[(x, y)]
IndexGet ==
    /\ Unborrowed
    /\ \E x \in 0..img.w, y \in 0..img.h :
           LET r == index(img, x, y)
           IN  op' = Call("index", x, y, NoPixel, 0, r.panic, r.value, NoImage)
    /\ it' = NoIter /\ itm' = NoIterMut
    /\ UNCHANGED <<pixVars, kind, made, img, nmut, eyeVars, fltVars>>

\* img[(x, y)] = v
IndexSet ==
    /\ CanMutate
    /\ \E x \in 0..img.w, y \in 0..img.h, v \in StorePixels(kind) :
           LET r == index(img, x, y)
           IN  /\ img' = IF r.panic THEN img
                         ELSE [img EXCEPT !.data[r.off + 1] = v]
               /\ op' = Call("index_mut", x, y, v, 0, r.panic, NoPixel, img)
    /\ nmut' = nmut + 1
    /\ it' = NoIter /\ itm' = NoIterMut
    /\ UNCHANGED <<pixVars, kind, made, eyeVars, fltVars>>

\* Image::row
Row ==
    /\ Unborrowed
    /\ \E r \in 0..(img.h + 1) :
           LET s == row(img, r)
           IN  op' = Call("row", 0, r, NoPixel, 0, s.panic, s.slice, NoImage)
    /\ it' = NoIter /\ itm' = NoIterMut
    /\ UNCHANGED <<pixVars, kind, made, img, nmut, eyeVars, fltVars>>

\* Image::row_mut
RowMut ==
    /\ Unborrowed
    /\ \E r \in 0..(img.h + 1) :
           LET s == row(img, r)
           IN  op' = Call("row_mut", 0, r, NoPixel, 0, s.panic, s.slice, NoImage)
    /\ it' = NoIter /\ itm' = NoIterMut
    /\ UNCHANGED <<pixVars, kind, made, img, nmut, eyeVars, fltVars>>

\* Image::iter_mut, the loop body being closure f
IterMutNew ==
    /\ CanMutate
    /\ \E f \in Closures : itm' = iter_mut(f)
    /\ op' = Call("iter_mut", 0, 0, NoPixel, 0, FALSE, NoPixel, NoImage)
    /\ nmut' = nmut + 1
    /\ it' = NoIter
    /\ UNCHANGED <<pixVars, kind, made, img, eyeVars, fltVars>>

\* ImageMutIterator::next and the loop body; next() may be called again after
\* it has returned None.
IterMutNext ==
    /\ itm.live /\ itm.y < img.h + MaxNone
    /\ LET r == iter_mut_next(itm, img, kind)
       IN  /\ itm' = r.itm
           /\ img' = r.img
           /\ op' = Call("iter_mut.next", r.itm.x, r.itm.y, NoPixel, 0,
                         r.itm.panic, NoPixel, NoImage)
    /\ UNCHANGED <<pixVars, kind, made, it, nmut, eyeVars, fltVars>>

\* The loop over iter_mut() is left once next() has returned None.
IterMutDrop ==
    /\ itm.live /\ itm.ended
    /\ itm' = [itm EXCEPT !.live = FALSE]
    /\ UNCHANGED <<pixVars, kind, made, img, op, it, nmut, eyeVars, fltVars>>

\* Image::iter
IterNew ==
    /\ Unborrowed
    /\ it' = iter(img)
    /\ op' = Call("iter", 0, 0, NoPixel, 0, it'.panic, NoPixel, NoImage)
    /\ UNCHANGED <<pixVars, kind, made, img, itm, nmut, eyeVars, fltVars>>

\* ImageIterator::next; next() may be called again after it has returned None,
\* and each such call adds one to y.
IterNext ==
    /\ it.live /\ it.y < img.h + MaxNone
    /\ it' = iter_next(it, img)
    /\ op' = Call("iter.next", it'.x, it'.y, NoPixel, 0, it'.panic, NoPixel,
                  NoImage)
    /\ UNCHANGED <<pixVars, kind, made, img, itm, nmut, eyeVars, fltVars>>

\* The loop over iter() is left once next() has returned None.
IterDrop ==
    /\ it.live /\ it.ended
    /\ it' = [it EXCEPT !.live = FALSE]
    /\ UNCHANGED <<pixVars, kind, made, img, op, itm, nmut, eyeVars, fltVars>>

NextImage ==
    \/ Fill \/ Zero \/ FillChannel \/ SetAlpha
    \/ IndexGet \/ IndexSet \/ Row \/ RowMut
    \/ IterMutNew \/ IterMutNext \/ IterMutDrop
    \/ IterNew \/ IterNext \/ IterDrop

SpecImage == Init /\ [][NextImage]_vars

(***************************************************************************)
(* Filter operations.  As in the tests of filter.rs, a filter is           *)
(* constructed, applied to the image and dropped before the next one is    *)
(* constructed.                                                            *)
(***************************************************************************)
\* GeneralKernel::new
KernelNew ==
    /\ kern = NoKernel
    /\ \E a \in KernelInputs :
           /\ kern' = [GeneralKernel(a.width, a.height, a.data)
                          EXCEPT !.exp = a.exp]
           /\ built' = [Built("GeneralKernel::new", a.width, a.height,
                              Len(a.data), kern'.panic)
                           EXCEPT !.weights = a.data]
    /\ out' = NoOutput
    /\ UNCHANGED <<pixVars, kind, made, img, eyeVars, imgVars>>

\* GaussianKernel::new
GaussianNew ==
    /\ kern = NoKernel
    /\ \E size \in Windows, e \in SigmaExps :
           /\ kern' = GaussianKernel(size, e)
           /\ built' = Built("GaussianKernel::new", size, size, e, kern'.panic)
    /\ out' = NoOutput
    /\ UNCHANGED <<pixVars, kind, made, img, eyeVars, imgVars>>

\* BoxFilter::new
BoxFilterNew ==
    /\ kern = NoKernel
    /\ \E width \in Windows, height \in Windows :
           /\ kern' = BoxFilter_new(width, height)
           /\ built' = Built("BoxFilter::new", width, height, 0, kern'.panic)
    /\ out' = NoOutput
    /\ UNCHANGED <<pixVars, kind, made, img, eyeVars, imgVars>>

\* MedianFilter::new
MedianFilterNew ==
    /\ kern = NoKernel
    /\ \E width \in Windows, height \in Windows :
           /\ kern' = MedianFilter_new(width, height)
           /\ built' = Built("MedianFilter::new", width, height, 0, kern'.panic)
    /\ out' = NoOutput
    /\ UNCHANGED <<pixVars, kind, made, img, eyeVars, imgVars>>

\* Sobel::new
SobelNew ==
    /\ kern = NoKernel
    /\ kern' = Sobel_new
    /\ built' = Built("Sobel::new", 0, 0, 0, FALSE)
    /\ out' = NoOutput
    /\ UNCHANGED <<pixVars, kind, made, img, eyeVars, imgVars>>

\* The filter, or the failed call of its constructor, and the image it
\* returned go out of scope.
FilterDrop ==
    /\ kern # NoKernel
    /\ kern' = NoKernel
    /\ out' = NoOutput
    /\ built' = NoBuilt
    /\ UNCHANGED <<pixVars, kind, made, img, eyeVars, imgVars>>

\* A filter has been constructed, and no iterator borrows the image.
Constructed(type) == kern.type = type /\ ~kern.panic /\ Unborrowed

\* Filter::filter of a GeneralKernel or a GaussianKernel on the image
KernelFilter ==
    /\ Constructed("GeneralKernel") \/ Constructed("GaussianKernel")
    /\ \E seed \in GarbageSeeds :
           out' = IF kern_calc_panics(kern, img, kind)
                  THEN Failed("kernel")
                  ELSE Output("kernel",
                           kernel_filter(kern, img, kind,
                                         Garbage(kind, img.w * img.h, seed)))
    /\ UNCHANGED <<pixVars, kind, made, img, eyeVars, imgVars, kern, built>>

\* Filter::filter of a BoxFilter on the image
BoxFilterFilter ==
    /\ Constructed("BoxFilter")
    /\ \E seed \in GarbageSeeds :
           LET r == box_filter(kern, img, kind,
                               Garbage(kind, img.w * img.h, seed))
           IN  out' = IF r.panic THEN Failed("BoxFilter")
                      ELSE Output("BoxFilter", r.image)
    /\ UNCHANGED <<pixVars, kind, made, img, eyeVars, imgVars, kern, built>>

\* Filter::filter of a MedianFilter on the image
MedianFilterFilter ==
    /\ Constructed("MedianFilter")
    /\ \E seed \in GarbageSeeds :
           out' = Output("MedianFilter",
                      median_filter(kern, img, kind,
                                    Garbage(kind, img.w * img.h, seed)))
    /\ UNCHANGED <<pixVars, kind, made, img, eyeVars, imgVars, kern, built>>

\* Filter::filter of the Sobel of sobel.rs on the image
SobelFilter ==
    /\ Constructed("Sobel")
    /\ \E seed \in GarbageSeeds :
           out' = Output("Sobel",
                      sobel_filter(img, kind,
                                   Garbage(kind, img.w * img.h, seed)))
    /\ UNCHANGED <<pixVars, kind, made, img, eyeVars, imgVars, kern, built>>

\* Filter::filter of the Sobel of edge_detect.rs on the image
EdgeDetectFilter ==
    /\ Constructed("Sobel")
    /\ \E seed \in GarbageSeeds :
           LET r == edge_detect_filter(img, kind,
                                       Garbage(kind, img.w * img.h, seed))
           IN  out' = IF r.panic THEN Failed("edge_detect")
                      ELSE Output("edge_detect", r.image)
    /\ UNCHANGED <<pixVars, kind, made, img, eyeVars, imgVars, kern, built>>

\* The filters are applied to images fresh from Image::new and to images that
\* fill or zero has made constant: the image is filled once, before a filter
\* is applied to it, and the output of a filter is dropped with the filter.
FilterFill == out = NoOutput /\ nmut = 0 /\ Fill
FilterZero == out = NoOutput /\ nmut = 0 /\ Zero

NextFilter ==
    \/ KernelNew \/ GaussianNew \/ BoxFilterNew \/ MedianFilterNew \/ SobelNew
    \/ KernelFilter \/ BoxFilterFilter \/ MedianFilterFilter
    \/ SobelFilter \/ EdgeDetectFilter \/ FilterDrop
    \/ FilterFill \/ FilterZero

SpecFilter == Init /\ [][NextFilter]_vars

(***************************************************************************)
(* A filter application cell by cell.  The loops of Filter::filter run     *)
(* their body once for every cell of the output, in row-first order for a  *)
(* kernel and in column-first order for BoxFilter and MedianFilter; here   *)
(* the bodies run in any order, one cell at a time, as they would when     *)
(* handed to workers that compute disjoint cells.                          *)
(***************************************************************************)
InProgress == ~out.made /\ out.image # NoImage

Cells(im) == (0..(im.w - 1)) \X (0..(im.h - 1))

\* let mut ret = Image::new(img.width(), img.height())
OrderBegin ==
    /\ \/ Constructed("GeneralKernel") \/ Constructed("GaussianKernel")
       \/ Constructed("BoxFilter") \/ Constructed("MedianFilter")
    /\ out = NoOutput
    /\ img.w * img.h <= MaxCells
    /\ \E seed \in GarbageSeeds :
           out' = Partial(by_name(kern),
                          new(img.w, img.h, Garbage(kind, img.w * img.h, seed)),
                          {})
    /\ UNCHANGED <<pixVars, kind, made, img, eyeVars, imgVars, kern, built>>

\* ret[(x, y)] = ..._calc_one(self, x, y, img), for a cell not yet computed;
\* a panic ends the application.
OrderCell ==
    /\ InProgress
    /\ \E cell \in Cells(img) \ out.done :
           out' = IF cell_panics(kern, img, kind, cell[1], cell[2])
                  THEN Failed(out.by)
                  ELSE Partial(out.by,
                               filter_cell(kern, img, kind, out.image,
                                           cell[1], cell[2]),
                               out.done \cup {cell})
    /\ UNCHANGED <<pixVars, kind, made, img, eyeVars, imgVars, kern, built>>

\* ret is returned once every cell has been computed.
OrderEnd ==
    /\ InProgress
    /\ out.done = Cells(img)
    /\ out' = Output(out.by, out.image)
    /\ UNCHANGED <<pixVars, kind, made, img, eyeVars, imgVars, kern, built>>

NextOrder ==
    \/ KernelNew \/ GaussianNew \/ BoxFilterNew \/ MedianFilterNew
    \/ FilterDrop \/ OrderBegin \/ OrderCell \/ OrderEnd

SpecOrder == Init /\ [][NextOrder]_vars

(***************************************************************************)
(* Operations on pixel values.                                             *)
(***************************************************************************)
\* pixel + s
ScalarAdd ==
    /\ \E p \in PixelInputs(kind), s \in Scalars :
           LET r == scalar_op("add", p, s)
           IN  pop' = PixelOp("add", p, NoPixel, s, <<>>, r.panic, r.value)
    /\ UNCHANGED <<kind, made, img, eyeVars, imgVars, fltVars>>

\* pixel - s
ScalarSub ==
    /\ \E p \in PixelInputs(kind), s \in Scalars :
           LET r == scalar_op("sub", p, s)
           IN  pop' = PixelOp("sub", p, NoPixel, s, <<>>, r.panic, r.value)
    /\ UNCHANGED <<kind, made, img, eyeVars, imgVars, fltVars>>

\* pixel * s
ScalarMul ==
    /\ \E p \in PixelInputs(kind), s \in Scalars :
           LET r == scalar_op("mul", p, s)
           IN  pop' = PixelOp("mul", p, NoPixel, s, <<>>, r.panic, r.value)
    /\ UNCHANGED <<kind, made, img, eyeVars, imgVars, fltVars>>

\* a.saturating_add(b)
SaturatingAdd ==
    /\ \E a \in PixelInputs(kind), b \in PixelInputs(kind) :
           pop' = PixelOp("saturating_add", a, b, 0, <<>>, FALSE,
                          saturating_add(a, b))
    /\ UNCHANGED <<kind, made, img, eyeVars, imgVars, fltVars>>

\* a.saturating_sub(b)
SaturatingSub ==
    /\ \E a \in PixelInputs(kind), b \in PixelInputs(kind) :
           pop' = PixelOp("saturating_sub", a, b, 0, <<>>, FALSE,
                          saturating_sub(a, b))
    /\ UNCHANGED <<kind, made, img, eyeVars, imgVars, fltVars>>

\* Pixel::from_raw
FromRaw ==
    /\ \E raw \in RawSlices :
           LET r == from_raw(kind, raw)
           IN  pop' = PixelOp("from_raw", NoPixel, NoPixel, 0, raw, r.panic,
                              r.value)
    /\ UNCHANGED <<kind, made, img, eyeVars, imgVars, fltVars>>

NextPixel ==
    \/ ScalarAdd \/ ScalarSub \/ ScalarMul
    \/ SaturatingAdd \/ SaturatingSub \/ FromRaw

SpecPixel == Init /\ [][NextPixel]_vars

(***************************************************************************)
(* Properties of the Eye.                                                  *)
(***************************************************************************)
\* The image has at least one cell.
NonEmpty(im) == im.w >= 1 /\ im.h >= 1

\* (x, y) names a cell of the image.
Inside(im, x, y) == 0 <= x /\ x < im.w /\ 0 <= y /\ y < im.h

\* The pixel stored in cell (x, y), rows being laid out one after another.
PixelAt(im, x, y) == im.data[y * im.w + x + 1]

Clamp(c, lo, hi) == IF c < lo THEN lo ELSE IF c > hi THEN hi ELSE c

\* The 3x3 gray image 1,2,3; 4,5,6; 7,8,9 of test_eye_look
IsTestImage == kind = "Gray" /\ img = new(3, 3, Garbage("Gray", 9, 0))

\* A look has been made with the current eye.
Looked == seen.path # "none"

\* C1: on a non-empty image, a look with the Extend policy at an out-of-bounds
\* coordinate returns the pixel stored at (clamp(x, 0, w-1), clamp(y, 0, h-1)),
\* each axis clamped on its own; on the test image (100,100) gives 9,
\* (1,-100) gives 2 and (-100,-100) gives 1.
C1_ExtendClamps ==
    (Looked /\ eye.alter_type = Extend /\ NonEmpty(img)
            /\ ~Inside(img, eye.x, eye.y))
    => /\ ~seen.panic
       /\ seen.value = PixelAt(img, Clamp(eye.x, 0, img.w - 1),
                                    Clamp(eye.y, 0, img.h - 1))
       /\ (IsTestImage /\ eye.x = 100 /\ eye.y = 100) => seen.value = <<9>>
       /\ (IsTestImage /\ eye.x = 1 /\ eye.y = -100) => seen.value = <<2>>
       /\ (IsTestImage /\ eye.x = -100 /\ eye.y = -100) => seen.value = <<1>>

\* An Extend look at (1, -100) on the test image has returned the pixel 2.
C1_Witness ==
    /\ Looked /\ eye.alter_type = Extend /\ IsTestImage
    /\ eye.x = 1 /\ eye.y = -100 /\ seen.value = <<2>>

\* The coordinate the Mirror policy is said to read on one axis: a negative c
\* becomes -c, then a c at or beyond the dimension d becomes d - (c mod d).
Mirrored(c, d) ==
    LET r == IF c < 0 THEN -c ELSE c
    IN  IF r >= d THEN d - (r % d) ELSE r

\* C2: on a non-empty image, a look with the Mirror policy at an out-of-bounds
\* coordinate indexes the image at (Mirrored(x, w), Mirrored(y, h)), and where
\* that names a cell it returns the cell's pixel; on the test image (-1, 1)
\* gives the pixel at (1, 1), which is 5.
C2_MirrorReflects ==
    (Looked /\ eye.alter_type = Mirror /\ NonEmpty(img)
            /\ ~Inside(img, eye.x, eye.y))
    => /\ seen.indexed
       /\ seen.x = Mirrored(eye.x, img.w)
       /\ seen.y = Mirrored(eye.y, img.h)
       /\ Inside(img, seen.x, seen.y)
            => ~seen.panic /\ seen.value = PixelAt(img, seen.x, seen.y)
       /\ (IsTestImage /\ eye.x = -1 /\ eye.y = 1) => seen.value = <<5>>

\* A Mirror look at (-1, 1) on the test image has returned the pixel 5.
C2_Witness ==
    /\ Looked /\ eye.alter_type = Mirror /\ IsTestImage
    /\ eye.x = -1 /\ eye.y = 1 /\ seen.value = <<5>>

\* C3: on a non-empty image a look never fails, whatever the coordinate and
\* the policy, and the coordinate at which it indexes the image names a cell:
\* 0 <= x' < w and 0 <= y' < h.
C3_LookNeverFails ==
    (Looked /\ NonEmpty(img))
    => /\ ~seen.panic
       /\ seen.indexed => Inside(img, seen.x, seen.y)

\* C4: under every policy a look at an in-bounds coordinate returns the image's
\* own pixel at that coordinate, and a look with Constant(v) at an
\* out-of-bounds coordinate returns v.
C4_InBoundsBypassesPolicy ==
    Looked
    => /\ Inside(img, eye.x, eye.y)
            => ~seen.panic /\ seen.value = PixelAt(img, eye.x, eye.y)
       /\ (~Inside(img, eye.x, eye.y) /\ eye.alter_type.tag = "Constant")
            => ~seen.panic /\ seen.value = eye.alter_type.pixel

\* A look with the Constant policy at an in-bounds coordinate has returned the
\* image's pixel, which is not the constant.
C4_Witness ==
    /\ Looked /\ eye.alter_type.tag = "Constant"
    /\ Inside(img, eye.x, eye.y)
    /\ seen.value = PixelAt(img, eye.x, eye.y)
    /\ seen.value # eye.alter_type.pixel

(***************************************************************************)
(* Properties of the Image.                                                *)
(***************************************************************************)
\* C5: direct access beyond the image bounds fails at the access and returns
\* no pixel data: row(y) and row_mut(y) with y >= height fail, and img[(x, y)],
\* read or written, with x >= width or y >= height fails and overwrites no cell.
C5_OutOfRangeFails ==
    /\ (op.name \in {"row", "row_mut"} /\ op.y >= img.h) => op.panic
    /\ (op.name = "index" /\ (op.x >= img.w \/ op.y >= img.h)) => op.panic
    /\ (op.name = "index_mut" /\ (op.x >= op.pre.w \/ op.y >= op.pre.h))
           => op.panic /\ img = op.pre

\* C6: after fill(v) every cell (x, y) with x < width and y < height reads back
\* exactly v, and after zero() every channel of every cell is 0.
C6_FillReadsBack ==
    /\ op.name = "fill"
           => \A x \in 0..(img.w - 1), y \in 0..(img.h - 1) :
                  index(img, x, y) = [panic |-> FALSE, off |-> y * img.w + x,
                                      value |-> op.p]
    /\ op.name = "zero"
           => \A x \in 0..(img.w - 1), y \in 0..(img.h - 1) :
                  /\ ~index(img, x, y).panic
                  /\ \A c \in 1..channels(kind) : index(img, x, y).value[c] = 0

\* fill(v) has been called on an image of several cells, whose last cell
\* reads back v.
C6_Witness ==
    /\ op.name = "fill" /\ img.w >= 2 /\ img.h >= 2
    /\ index(img, img.w - 1, img.h - 1).value = op.p

\* C7: fill_channel(i, v) with i below the channel count sets channel i of
\* every pixel to v and leaves every other channel of every pixel and the image
\* dimensions as they were; with i at or above the channel count it fails and
\* leaves the whole image as it was.  set_alpha() is fill_channel(alpha_index,
\* max_value).
C7_FillChannelFrame ==
    op.name \in {"fill_channel", "set_alpha"}
    => IF op.x < channels(kind)
       THEN /\ ~op.panic
            /\ img.w = op.pre.w /\ img.h = op.pre.h
            /\ img.stride = op.pre.stride
            /\ Len(img.data) = Len(op.pre.data)
            /\ \A i \in 1..Len(img.data), c \in 1..channels(kind) :
                   img.data[i][c] = IF c = op.x + 1 THEN op.s
                                    ELSE op.pre.data[i][c]
       ELSE op.panic /\ img = op.pre

\* fill_channel(1, v) has run on a non-empty BGR image whose channel 0 still
\* differs from v.
C7_Witness ==
    /\ op.name = "fill_channel" /\ ~op.panic /\ kind = "BGR" /\ op.x = 1
    /\ NonEmpty(img)
    /\ img.data[1][2] = op.s /\ img.data[1][1] # op.s

\* The coordinates of the cells of a w x h image in row-major order
RowMajor(w, h) == [i \in 1..(w * h) |-> <<(i - 1) % w, (i - 1) \div w>>]

\* The coordinates of the triples an iterator has yielded
Visited(log) == [i \in 1..Len(log) |-> <<log[i][1], log[i][2]>>]

\* C8: on an image of width and height at least 1, iter_mut() and a later
\* iter() each yield the cells in row-major order, never fail, and have yielded
\* exactly width*height triples, every cell once, when they end; the pixel
\* iter() yields at a cell is the pixel that was stored through iter_mut() at
\* that cell.
C8_IterRowMajor ==
    NonEmpty(img)
    => /\ ~itm.panic /\ ~it.panic
       /\ Len(itm.log) <= img.w * img.h
       /\ Visited(itm.log) = SubSeq(RowMajor(img.w, img.h), 1, Len(itm.log))
       /\ itm.ended => Len(itm.log) = img.w * img.h
       /\ Len(it.log) <= img.w * img.h
       /\ Visited(it.log) = SubSeq(RowMajor(img.w, img.h), 1, Len(it.log))
       /\ it.ended => Len(it.log) = img.w * img.h
       /\ (itm.ended /\ itm.f # "none")
              => \A i \in 1..Len(it.log) : it.log[i] = itm.log[i]

\* iter_mut() storing a pixel per cell and then iter() have both run to their
\* end on a 3 x 2 image.
C8_Witness ==
    /\ img.w = 3 /\ img.h = 2
    /\ itm.ended /\ itm.f = "tag" /\ it.ended
    /\ Len(it.log) = 6 /\ it.log[5] = <<1, 1, Uniform(kind, 2^7 + 2^4 + 1)>>

\* C9: after Image::new(w, h) and any calls of fill, zero, fill_channel,
\* set_alpha, indexed stores and stores through iter_mut(), the image has
\* width w, height h, stride w, a buffer of stride*height = w*h pixels, a raw
\* view of w*h*channels subpixels and pitch w*channels.
C9_ImageShape ==
    /\ img.w = made.width /\ img.h = made.height
    /\ img.stride = made.width
    /\ Len(img.data) = img.stride * img.h
    /\ Len(img.data) = made.width * made.height
    /\ \A i \in 1..Len(img.data) : Len(img.data[i]) = channels(kind)
    /\ raw_len(img, kind) = made.width * made.height * channels(kind)
    /\ pitch(img, kind) = made.width * channels(kind)

\* An indexed store has changed a cell of a non-empty image.
C9_Witness ==
    /\ op.name = "index_mut" /\ ~op.panic /\ NonEmpty(img)
    /\ img # op.pre /\ nmut >= 1

(***************************************************************************)
(* Properties of the filters.                                              *)
(***************************************************************************)
\* C10: convolving an image with the single-cell kernel
\* GeneralKernel::new(1, 1, [1.0]) returns an image equal to the input in every
\* cell and every channel.
C10_IdentityKernel ==
    (out.made /\ out.by = "kernel" /\ kern = GeneralKernel(1, 1, <<1>>))
    => /\ out.image.w = img.w /\ out.image.h = img.h
       /\ \A x \in 0..(img.w - 1), y \in 0..(img.h - 1) :
              \A c \in 1..channels(kind) :
                  PixelAt(out.image, x, y)[c] = PixelAt(img, x, y)[c]

\* The single-cell kernel of weight 1 has been applied to a 3 x 2 image whose
\* cells differ, and the last cell of the output is the last cell of the input.
C10_Witness ==
    /\ out.made /\ kern = GeneralKernel(1, 1, <<1>>)
    /\ img.w = 3 /\ img.h = 2
    /\ PixelAt(img, 0, 0) # PixelAt(img, 2, 1)
    /\ PixelAt(out.image, 2, 1) = PixelAt(img, 2, 1)


\* C11: an application of any of the filters (GeneralKernel, GaussianKernel,
\* BoxFilter, MedianFilter, Sobel) that returns an image returns one whose width
\* and height are those of the input image, with a cell for every cell of the
\* input, and the step leaves the input image (its dimensions and every pixel)
\* and the filter's parameters as they were.
C11_FilterFrame ==
    [][(out'.made /\ out' # out)
       => /\ img' = img
          /\ kern' = kern
          /\ out'.image.w = img.w /\ out'.image.h = img.h
          /\ Len(out'.image.data) = img.w * img.h]_vars

\* A MedianFilter has returned a 3 x 2 image for a 3 x 2 image.
C11_Witness ==
    /\ out.made /\ out.by = "MedianFilter"
    /\ img.w = 3 /\ img.h = 2
    /\ out.image.w = 3 /\ out.image.h = 2

\* C12: malformed dimensions fail at construction: GeneralKernel::new(w, h,
\* weights) fails when the number of weights is not w*h, GaussianKernel::new
\* fails when size is even, BoxFilter::new and MedianFilter::new fail when w or
\* h is even; a failed constructor leaves no filter that could be applied, so
\* no application follows it.
C12_ConstructionFails ==
    /\ (built.name = "GeneralKernel::new"
            /\ built.arg # built.width * built.height) => built.panic
    /\ (built.name = "GaussianKernel::new" /\ built.width % 2 = 0)
           => built.panic
    /\ (built.name \in {"BoxFilter::new", "MedianFilter::new"}
            /\ (built.width % 2 = 0 \/ built.height % 2 = 0)) => built.panic
    /\ built.panic => kern.panic /\ out = NoOutput

\* BoxFilter::new(3, 2) has failed.
C12_Witness ==
    /\ built.name = "BoxFilter::new" /\ built.width = 3 /\ built.height = 2
    /\ built.panic /\ kern.panic

\* C13: every kernel that GeneralKernel::new or GaussianKernel::new returns has
\* odd width and odd height.
C13_KernelOdd ==
    (kern.type \in {"GeneralKernel", "GaussianKernel"} /\ ~kern.panic)
    => kern.width % 2 = 1 /\ kern.height % 2 = 1

\* The sum of a sequence of integers
RECURSIVE SeqSum(_)
SeqSum(seq) ==
    IF seq = <<>> THEN 0 ELSE seq[1] + SeqSum(SubSeq(seq, 2, Len(seq)))

\* The sum of the weights of a kernel, in units of 1/unit
WeightSum(k) == SeqSum([i \in 1..Len(k.data) |-> SeqSum(k.data[i])])

\* C14: for an odd size and a positive sigma GaussianKernel::new(size, sigma)
\* returns a size x size kernel whose weights are numbers that sum to 1.
C14_GaussianSumsToOne ==
    (built.name = "GaussianKernel::new" /\ built.width % 2 = 1)
    => /\ ~kern.panic
       /\ kern.width = built.width /\ kern.height = built.width
       /\ Len(kern.data) = built.width
       /\ \A i \in 1..Len(kern.data) : Len(kern.data[i]) = built.width
       /\ ~kern.nan
       /\ WeightSum(kern) = kern.unit

\* Every cell of the image holds the same pixel.
IsConstant(im) ==
    \A i \in 1..Len(im.data), j \in 1..Len(im.data) : im.data[i] = im.data[j]

WindowInside(im, w, h, x, y) ==
    {<<i, j>> \in ((x - w \div 2)..(x + w \div 2))
                      \X ((y - h \div 2)..(y + h \div 2)) : Inside(im, i, j)}

\* v is the element at index count/2 of the ascending sequence of channel c
\* over the cells: at most count/2 cells hold less than v, more than count/2
\* hold v or less, and some cell holds v.
IsUpperMedian(im, cells, c, v) ==
    LET count == Cardinality(cells)
        less == {p \in cells : PixelAt(im, p[1], p[2])[c] < v}
        upto == {p \in cells : PixelAt(im, p[1], p[2])[c] <= v}
    IN  /\ Cardinality(less) <= count \div 2
        /\ count \div 2 < Cardinality(upto)
        /\ \E p \in cells : PixelAt(im, p[1], p[2])[c] = v

\* C16: MedianFilter(w, h) returns at (x, y), for each channel on its own, the
\* element at index count/2 of the ascending sequence of that channel over the
\* cells of the w x h window centred on (x, y) that lie inside the image; at
\* the centre of the 3 x 3 image 1,2,3; 4,5,6; 7,8,9 a 3 x 3 window gives 5.
C16_MedianOfWindow ==
    out.by = "MedianFilter"
    => /\ out.made
       /\ \A x \in 0..(img.w - 1), y \in 0..(img.h - 1) :
              \A c \in 1..channels(kind) :
                  IsUpperMedian(img,
                      WindowInside(img, kern.width, kern.height, x, y),
                      c, PixelAt(out.image, x, y)[c])
       /\ (IsTestImage /\ kern.width = 3 /\ kern.height = 3)
              => PixelAt(out.image, 1, 1) = <<5>>

\* A 3 x 3 MedianFilter has been applied to the test image: the centre is 5
\* and the corner, whose window has the four cells 1, 2, 4, 5 inside the
\* image, is 4.
C16_Witness ==
    /\ out.made /\ out.by = "MedianFilter" /\ IsTestImage
    /\ kern.width = 3 /\ kern.height = 3
    /\ PixelAt(out.image, 1, 1) = <<5>> /\ PixelAt(out.image, 0, 0) = <<4>>

\* Channel c of the convolution at (x, y) of the image with the nine weights W
\* of a 3 x 3 kernel given row by row: the weighted sum over the window, the
\* cells outside the image being read at the nearest cell of the image, clamped
\* to the range of the subpixel.
Convolved3(im, W, x, y, c) ==
    Clamp(SeqSum([n \in 1..9 |->
                     W[n] * PixelAt(im,
                                Clamp(x + ((n - 1) % 3) - 1, 0, im.w - 1),
                                Clamp(y + ((n - 1) \div 3) - 1, 0, im.h - 1))[c]]),
          min_value, max_value)

\* C17: every cell and channel of the image Sobel returns is the saturating
\* sum min(max_value, gx + gy) of the convolutions of the input with
\* [-1,0,1; -2,0,2; -1,0,1] and with [-1,-2,-1; 0,0,0; 1,2,1].
C17_SobelSaturatingSum ==
    (out.made /\ out.by \in {"Sobel", "edge_detect"})
    => \A x \in 0..(img.w - 1), y \in 0..(img.h - 1) :
           \A c \in 1..channels(kind) :
               PixelAt(out.image, x, y)[c] =
                   Min(max_value,
                       Convolved3(img, <<-1, 0, 1, -2, 0, 2, -1, 0, 1>>, x, y, c)
                       + Convolved3(img, <<-1, -2, -1, 0, 0, 0, 1, 2, 1>>,
                                    x, y, c))

\* Sobel has returned a cell where the two convolutions sum to more than
\* max_value, and a cell where they sum to less and are not both zero.
C17_Witness ==
    /\ out.made /\ out.by = "Sobel" /\ NonEmpty(img)
    /\ \E x \in 0..(img.w - 1), y \in 0..(img.h - 1) :
           /\ Convolved3(img, <<-1, 0, 1, -2, 0, 2, -1, 0, 1>>, x, y, 1)
              + Convolved3(img, <<-1, -2, -1, 0, 0, 0, 1, 2, 1>>, x, y, 1)
                  > max_value
           /\ PixelAt(out.image, x, y)[1] = max_value
    /\ \E x \in 0..(img.w - 1), y \in 0..(img.h - 1) :
           /\ PixelAt(out.image, x, y)[1] > 0
           /\ PixelAt(out.image, x, y)[1] < max_value

(***************************************************************************)
(* Properties of the operations on pixel values.                           *)
(***************************************************************************)
\* The exact result of a scalar operation on one channel
Exact(name, a, s) ==
    CASE name = "add" -> a + s
      [] name = "sub" -> a - s
      [] name = "mul" -> a * s

\* C18: p + s, p - s and p * s never fail, for a scalar s of either sign, and
\* every channel of the result is the exact result clamped into
\* [min_value, max_value].
C18_ScalarOpsClamp ==
    pop.name \in {"add", "sub", "mul"}
    => /\ ~pop.panic
       /\ \A c \in 1..channels(kind) :
              pop.ret[c] = Clamp(Exact(pop.name, pop.a[c], pop.s),
                                 min_value, max_value)

\* C19: channel i of a.saturating_add(b) is min(255, a[i] + b[i]) and channel i
\* of a.saturating_sub(b) is max(0, a[i] - b[i]).
C19_SaturatingOps ==
    /\ pop.name = "saturating_add"
           => /\ ~pop.panic /\ Len(pop.ret) = channels(kind)
              /\ \A c \in 1..channels(kind) :
                     pop.ret[c] = Min(255, pop.a[c] + pop.b[c])
    /\ pop.name = "saturating_sub"
           => /\ ~pop.panic /\ Len(pop.ret) = channels(kind)
              /\ \A c \in 1..channels(kind) :
                     pop.ret[c] = Max(0, pop.a[c] - pop.b[c])

\* saturating_add has been applied to two BGR pixels one of whose channel sums
\* exceeds 255 and another does not.
C19_Witness ==
    /\ pop.name = "saturating_add" /\ kind = "BGR"
    /\ pop.a[2] + pop.b[2] > 255 /\ pop.ret[2] = 255
    /\ pop.a[3] + pop.b[3] < 255 /\ pop.ret[3] = pop.a[3] + pop.b[3]
    /\ pop.ret[3] > 0

\* C20: Pixel::from_raw(slice) succeeds exactly when the length of the slice
\* is channels(), and then returns the pixel whose channels are the elements
\* of the slice in order; with a shorter or a longer slice it fails.
C20_FromRawLength ==
    pop.name = "from_raw"
    => /\ ~pop.panic <=> Len(pop.raw) = channels(kind)
       /\ ~pop.panic => pop.ret = pop.raw


\* The weight of cell (i, j) of the kernel applied: for a GeneralKernel the
\* weight handed to the constructor at the row-major position j*kw + i, for a
\* GaussianKernel the weight of its row j and column i.
WeightOf(i, j) ==
    IF kern.type = "GeneralKernel"
    THEN built.weights[j * kern.width + i + 1]
    ELSE kern.data[j + 1][i + 1]

\* The exact weighted sum for cell (x, y) and channel c of the image, over the
\* cells of the kernel applied, in the units of the kernel; a cell outside
\* the image is read at the nearest cell of the image.
WeightedSum(im, x, y, c) ==
    SeqSum([n \in 1..(kern.width * kern.height) |->
               LET i == (n - 1) % kern.width
                   j == (n - 1) \div kern.width
               IN  WeightOf(i, j)
                   * PixelAt(im,
                         Clamp(x + i - (kern.width \div 2), 0, im.w - 1),
                         Clamp(y + j - (kern.height \div 2), 0, im.h - 1))[c]])

\* The sum s of the kernel applied, clamped to the range of the subpixel, in
\* units of 1/unit.  A non-zero sum of huge weights is beyond the range.
ClampedSum(s) ==
    IF kern.exp = 0
    THEN Clamp(s, min_value * kern.unit, max_value * kern.unit)
    ELSE IF s > 0 THEN max_value * kern.unit
    ELSE IF s < 0 THEN min_value * kern.unit
    ELSE 0

\* C21: every cell and channel of the image a kernel returns for a non-empty
\* image is the clamped exact sum of the weights times the Extend-sampled
\* pixels, converted to the subpixel type (the whole part of a sum that is not
\* whole): the sum is not clamped on the way.
C21_ConvolutionFormula ==
    (out.made /\ out.by = "kernel" /\ NonEmpty(img))
    => \A x \in 0..(img.w - 1), y \in 0..(img.h - 1) :
           \A c \in 1..channels(kind) :
               LET s == ClampedSum(WeightedSum(img, x, y, c))
                   v == PixelAt(out.image, x, y)[c]
               IN  v * kern.unit <= s /\ s < (v + 1) * kern.unit

\* The formula of C21 on the kernels whose partial sums stay finite
C21_FiniteSums ==
    kern.exp = 0 => C21_ConvolutionFormula

\* The sum of channel c over the cells of the width x height window centred
\* on (x, y), a cell outside the image being read at the nearest cell of the
\* image.
WindowSum(im, width, height, x, y, c) ==
    SeqSum([n \in 1..(width * height) |->
               PixelAt(im,
                   Clamp(x - (width \div 2) + ((n - 1) % width), 0, im.w - 1),
                   Clamp(y - (height \div 2) + ((n - 1) \div width), 0,
                         im.h - 1))[c]])

\* The values of channel c in the image
ChannelOf(im, c) == {im.data[n][c] : n \in 1..Len(im.data)}

Sequential ==
    LET garbage == Garbage(kind, img.w * img.h, 0)
    IN  CASE kern.type = "BoxFilter" ->
                 box_filter(kern, img, kind, garbage).image
          [] kern.type = "MedianFilter" ->
                 median_filter(kern, img, kind, garbage)
          [] OTHER -> kernel_filter(kern, img, kind, garbage)

\* C23: whatever the order in which the cells of a filter application are
\* computed, every cell computed so far holds the pixel that the loops of the
\* code store in it, and so does every cell of the image returned in the end:
\* the pixel of a cell depends on the input image and the filter only.
C23_OrderIndependent ==
    (InProgress \/ out.made)
    => \A cell \in (IF out.made THEN Cells(img) ELSE out.done) :
           PixelAt(out.image, cell[1], cell[2])
               = PixelAt(Sequential, cell[1], cell[2])

\* On a 2 x 2 image whose cells differ, the cells (1, 1) and (0, 0) have been
\* computed first, which neither the row-first nor the column-first loops do,
\* by a filter that reads the neighbours of a cell.
C23_Witness ==
    /\ InProgress /\ out.done = {<<1, 1>>, <<0, 0>>}
    /\ img.w = 2 /\ img.h = 2
    /\ PixelAt(img, 0, 0) # PixelAt(img, 1, 1)
    /\ kern.width = 3 /\ kern.height = 3
    /\ PixelAt(out.image, 1, 1) # PixelAt(img, 1, 1)

\* C24: an application of a constructed filter whose weights are finite to a
\* non-empty image never fails: it returns an image with a pixel for every
\* cell, every channel of which lies in [min_value, max_value].
C24_FilterNeverFails ==
    (out.by # "none" /\ NonEmpty(img) /\ ~kern.nan)
    => /\ out.made
       /\ Len(out.image.data) = img.w * img.h
       /\ \A n \in 1..Len(out.image.data) :
              \A c \in 1..channels(kind) :
                  /\ min_value <= out.image.data[n][c]
                  /\ out.image.data[n][c] <= max_value

\* C25: on an image of width 0 or height 0, iter() and iter_mut() and the
\* calls of next() on them do not fail and yield no element; and on every
\* image a call of next() on an iterator that has returned None yields
\* nothing and does not fail.
C25_EmptyAndFused ==
    /\ []((img.w = 0 \/ img.h = 0)
            => /\ ~it.panic /\ ~itm.panic
               /\ it.log = <<>> /\ itm.log = <<>>)
    /\ [][/\ (it.ended /\ it.live /\ it' # NoIter)
               => (~it'.panic /\ it'.log = it.log)
          /\ (itm.ended /\ itm.live /\ itm' # NoIterMut)
               => (~itm'.panic /\ itm'.log = itm.log)]_vars
=============================================================================
